---- MODULE Spec2Model ----
(***************************************************************************)
(* The watchdog of src/watchdog/main.go: an HTTP server that answers each  *)
(* request by running the configured executable (config.faasProcess),      *)
(* feeding it the request body on its standard input and returning its     *)
(* combined output.                                                        *)
(*                                                                         *)
(* One request is in flight at a time in this model; a request is handled  *)
(* by the handler goroutine (ServeHTTP, then Join after wg.Wait), the       *)
(* feeder goroutine (main.go:92-96), the drainer goroutine (main.go:99-102),*)
(* the child process and the goroutine os/exec runs to copy the child's    *)
(* output pipe into the buffer of CombinedOutput.                          *)
(*                                                                         *)
(* Bytes are one-character strings, a byte sequence is a sequence of them. *)
(* An error's text err.Error() written as a body is the one-element        *)
(* sequence <<text>>.                                                      *)
(***************************************************************************)
EXTENDS Integers, Sequences, FiniteSets, TLC

VARIABLES
    config,         \* the WatchdogConfig read at startup, never changed
    server,         \* main(): "starting", "listening", "panicked", "exited", "crashed"
    lockFile,       \* whether /tmp/.lock has been written
    r,              \* the request in flight: Method, Header, RawQuery, Body
    hpc,            \* the handler goroutine: "idle", "received", "waiting", "done", "aborted"
    panicAt,        \* where the handling of this request panicked ("" if nowhere)
    pipeCall,       \* the call makeRequestHandler made: "none", "body" (hasBody), "nobody"
    envs,           \* pipeRequest's envs: [called, vars]
    targetCmd,      \* the exec.Cmd: Env ([set, vars]) and how often it was started
    writer,         \* the child's stdin pipe: [made, isNil, wOpen, rOpen, buf]
    input,          \* buildFunctionInput: [read, requestBody, buildInputErr]
    wg,             \* the WaitGroup counter
    feeder,         \* the feeder goroutine: [pc, rest]
    drainer,        \* the drainer goroutine: "none", "start", "wait", "done"
    child,          \* the child process: [pc, eof, cbuf, exit]
    stdoutPipe,     \* bytes in the pipe of the child's stdout and stderr
    captured,       \* the bytes.Buffer CombinedOutput collects into
    out,            \* pipeRequest's out
    err,            \* pipeRequest's err
    w               \* the http.ResponseWriter: [status, header, body]

vars == <<config, server, lockFile, r, hpc, panicAt, pipeCall, envs, targetCmd,
          writer, input, wg, feeder, drainer, child, stdoutPipe, captured,
          out, err, w>>

reqVars == <<panicAt, pipeCall, envs, targetCmd, writer, input, wg, feeder,
             drainer, child, stdoutPipe, captured, out, err, w>>

----------------------------------------------------------------------------
(* Bounds of the model *)

\* the longest request body
MaxBodyLen == 3
\* the capacity of a pipe, in bytes
PipeCap == 2
\* how many bytes the copying child reads before it writes them out
ChildBufCap == 1

----------------------------------------------------------------------------
(* Values *)

Min(a, b) == IF a < b THEN a ELSE b

Take(s, n) == SubSeq(s, 1, n)
Drop(s, n) == SubSeq(s, n + 1, Len(s))

\* Go's nil error
NilErr == "<nil>"

ByteNames == <<"a", "b", "c", "d", "e", "f", "g", "h">>

Bodies == { Take(ByteNames, n) : n \in 0..MaxBodyLen }

NoHeader == [k \in {} |-> <<>>]
NoVars == <<>>

\* The environment of the server process, os.Environ(): NAME=value pairs. It
\* holds a stale Http_Method, as a server started from a CGI-like parent would.
OsEnviron == << [name |-> "PATH", value |-> "/bin"],
                [name |-> "Http_Method", value |-> "STALE"] >>

\* The target executables the model knows, by config.faasProcess:
\*   cat           copies stdin to stdout until end of input, exits 0
\*   hostname      reads nothing, writes three bytes, exits 0
\*   ./boom        reads nothing, writes "boom", exits 1
\*   /no/such/file cannot be started
Program(p) ==
    CASE p = "cat"      -> [startable |-> TRUE, reads |-> TRUE, output |-> <<>>, exit |-> 0]
      [] p = "hostname" -> [startable |-> TRUE, reads |-> FALSE, output |-> <<"x", "y", "z">>, exit |-> 0]
      [] p = "./boom"   -> [startable |-> TRUE, reads |-> FALSE, output |-> <<"boom">>, exit |-> 1]
      [] OTHER          -> [startable |-> FALSE, reads |-> FALSE, output |-> <<>>, exit |-> 0]

Processes == {"", "cat", "hostname", "./boom", "/no/such/file"}

Configs == [faasProcess : Processes, marshalRequest : BOOLEAN, cgiHeaders : BOOLEAN,
            contentType : {"", "text/plain"}, suppressLock : BOOLEAN]

BodyMethods == {"POST", "PUT", "DELETE", "UPDATE"}
Methods == BodyMethods \cup {"GET", "HEAD"}

\* Header multimaps and query strings of the requests of the model.
Shapes ==
    { [Header |-> NoHeader, RawQuery |-> ""],
      [Header |-> ("Content-Type" :> <<"application/json">>), RawQuery |-> "a=1"],
      [Header |-> ("Method" :> <<"SPOOF">>) @@ ("Content-Type" :> <<"", "text/xml">>),
       RawQuery |-> ""],
      [Header |-> ("X-Empty" :> <<>>), RawQuery |-> ""],
      [Header |-> ("X-Unencodable" :> <<"?">>), RawQuery |-> ""] }

\* r.Body is an io.ReadCloser or nil (a request built without a body object).
\* bytes are the bytes its Read delivers; readErr says that they end in an
\* error (a connection lost, a read timeout) instead of the end of the body.
RequestBodies == { [present |-> TRUE, bytes |-> b, readErr |-> FALSE] : b \in Bodies }
                 \cup { [present |-> TRUE, bytes |-> <<"a">>, readErr |-> TRUE] }
                 \cup { [present |-> FALSE, bytes |-> <<>>, readErr |-> FALSE] }

Requests ==
    { [Method |-> m, Header |-> s.Header, RawQuery |-> s.RawQuery, Body |-> b] :
        m \in BodyMethods, s \in Shapes, b \in RequestBodies }
    \cup
    { [Method |-> m, Header |-> s.Header, RawQuery |-> s.RawQuery,
       Body |-> [present |-> TRUE, bytes |-> <<>>, readErr |-> FALSE]] :
        m \in Methods \ BodyMethods, s \in Shapes }

NoRequest == [Method |-> "", Header |-> NoHeader, RawQuery |-> "",
              Body |-> [present |-> FALSE, bytes |-> <<>>, readErr |-> FALSE]]

\* The orders in which a range over a Go map may visit the keys of h.
Orders(h) ==
    { o \in [1..Cardinality(DOMAIN h) -> DOMAIN h] :
        \A i, j \in 1..Cardinality(DOMAIN h) : i # j => o[i] # o[j] }

\* http.Header.Get: the first value of the key, "" when there is none.
HeaderGet(h, k) == IF k \in DOMAIN h /\ Len(h[k]) > 0 THEN h[k][1] ELSE ""

----------------------------------------------------------------------------
(* The functions of main.go *)

\* A switch without its default case: every other method is piped as a GET.
routeNoDefault(method) ==
    IF method \in {"POST", "PUT", "DELETE", "UPDATE"} THEN "body" ELSE "nobody"

\* A switch whose GET case passes hasBody = true.
routeGetBody(method) ==
    IF method \in {"POST", "PUT", "DELETE", "UPDATE", "GET"} THEN "body" ELSE "405"

\* makeRequestHandler's switch on r.Method: which call it makes.
route(method) ==
    IF method \in {"POST", "PUT", "DELETE", "UPDATE"} THEN "body"
    ELSE IF method = "GET" THEN "nobody"
    ELSE "405"

\* fmt.Sprintf("Http_%s=%s", k, v): the entry NAME=value, kept as the pair a
\* child's getenv sees (a header field name holds no "=").
EnvEntry(k, v) == [name |-> "Http_" \o k, value |-> v]

\* getAdditionalEnvs appending Http_Method before the headers.
getAdditionalEnvsMethodFirst(cfg, req, method, order) ==
    IF ~cfg.cgiHeaders
    THEN [panic |-> FALSE, vars |-> NoVars]
    ELSE IF \E k \in DOMAIN req.Header : Len(req.Header[k]) = 0
    THEN [panic |-> TRUE, vars |-> NoVars]
    ELSE [panic |-> FALSE,
          vars |-> OsEnviron
                   \o << EnvEntry("Method", method) >>
                   \o [i \in 1..Len(order) |->
                         EnvEntry(order[i], req.Header[order[i]][1])]
                   \o (IF req.RawQuery # ""
                       THEN << EnvEntry("Query", req.RawQuery) >>
                       ELSE << >>)]

\* getAdditionalEnvs, with the order in which the range visits r.Header.
\* v[0] of a header with no value is an index out of range: the call panics.
getAdditionalEnvs(cfg, req, method, order) ==
    IF ~cfg.cgiHeaders
    THEN [panic |-> FALSE, vars |-> NoVars]
    ELSE IF \E k \in DOMAIN req.Header : Len(req.Header[k]) = 0
    THEN [panic |-> TRUE, vars |-> NoVars]
    ELSE [panic |-> FALSE,
          vars |-> OsEnviron
                   \o [i \in 1..Len(order) |->
                         EnvEntry(order[i], req.Header[order[i]][1])]
                   \o << EnvEntry("Method", method) >>
                   \o (IF req.RawQuery # ""
                       THEN << EnvEntry("Query", req.RawQuery) >>
                       ELSE << >>)]

\* targetCmd.Env assigned whatever envs holds.
cmdEnvAlways(e) == [set |-> TRUE, vars |-> e]

\* pipeRequest: targetCmd.Env is assigned only when envs is not empty.
cmdEnv(e) ==
    IF Len(e) > 0 THEN [set |-> TRUE, vars |-> e] ELSE [set |-> FALSE, vars |-> NoVars]

\* os/exec: a Cmd whose Env is nil runs the child in the server's environment.
ChildEnviron(cmd) == IF cmd.Env.set THEN cmd.Env.vars ELSE OsEnviron

\* types.MarshalRequest: the envelope of the body and the headers, or the
\* encoder's error for a header multimap it cannot encode.
MarshalRequest(requestBytes, header) ==
    IF "X-Unencodable" \in DOMAIN header
    THEN [res |-> <<>>, err |-> "json: unsupported value"]
    ELSE [res |-> <<"{">> \o requestBytes \o <<"}">>, err |-> NilErr]

\* ioutil.ReadAll(r.Body): the bytes read, and the error that ended the read.
ReadAll(body) ==
    [bytes |-> body.bytes,
     err |-> IF body.readErr THEN "unexpected EOF" ELSE NilErr]

\* buildFunctionInput returning the error of ReadAll.
buildFunctionInputReadErr(cfg, req) ==
    IF ~req.Body.present
    THEN [panic |-> TRUE, res |-> <<>>, err |-> NilErr]
    ELSE IF cfg.marshalRequest
    THEN [panic |-> FALSE,
          res |-> MarshalRequest(ReadAll(req.Body).bytes, req.Header).res,
          err |-> MarshalRequest(ReadAll(req.Body).bytes, req.Header).err]
    ELSE [panic |-> FALSE, res |-> ReadAll(req.Body).bytes,
          err |-> ReadAll(req.Body).err]

\* buildFunctionInput. ioutil.ReadAll of a nil r.Body calls Read on a nil
\* interface: the call panics. The error of ReadAll is dropped.
buildFunctionInput(cfg, req) ==
    IF ~req.Body.present
    THEN [panic |-> TRUE, res |-> <<>>, err |-> NilErr]
    ELSE IF cfg.marshalRequest
    THEN [panic |-> FALSE,
          res |-> MarshalRequest(ReadAll(req.Body).bytes, req.Header).res,
          err |-> MarshalRequest(ReadAll(req.Body).bytes, req.Header).err]
    ELSE [panic |-> FALSE, res |-> ReadAll(req.Body).bytes, err |-> NilErr]

\* pipeRequest going on after a failed buildFunctionInput.
rejectsInputNever(buildInputErr) == FALSE

\* pipeRequest: the early return on buildInputErr.
rejectsInput(buildInputErr) == buildInputErr # NilErr

NoResponse == [status |-> 0, header |-> [k \in {} |-> ""], body |-> <<>>]

\* wgCount that forgets the feeder.
wgCountOne(hasBody) == 1

\* pipeRequest: wgCount.
wgCount(hasBody) == IF hasBody = FALSE THEN 1 ELSE 2


\* makeRequestHandler's default case.
methodNotAllowed == [NoResponse EXCEPT !.status = 405]

\* pipeRequest: the response to an input that could not be built.
badRequest(buildInputErr) ==
    [NoResponse EXCEPT !.status = 400, !.body = <<buildInputErr>>]

\* The caller's Content-Type preferred to the configured one.
contentTypeCallerFirst(cfg, req, header) ==
    IF HeaderGet(req.Header, "Content-Type") # ""
    THEN ("Content-Type" :> HeaderGet(req.Header, "Content-Type")) @@ header
    ELSE IF cfg.contentType # ""
    THEN ("Content-Type" :> cfg.contentType) @@ header
    ELSE header

\* pipeRequest: the Content-Type of a successful response.
contentTypeHeader(cfg, req, header) ==
    IF cfg.contentType # ""
    THEN ("Content-Type" :> cfg.contentType) @@ header
    ELSE IF HeaderGet(req.Header, "Content-Type") # ""
    THEN ("Content-Type" :> HeaderGet(req.Header, "Content-Type")) @@ header
    ELSE header

\* A failure answered with the captured output as its body.
respondLeaksOutput(cfg, req, o, e) ==
    IF e # NilErr
    THEN [NoResponse EXCEPT !.status = 500, !.body = o]
    ELSE [status |-> 200,
          header |-> ("X-Duration-Seconds" :> "%f")
                     @@ contentTypeHeader(cfg, req, NoResponse.header),
          body |-> o]

\* An http.ResponseWriter while the handler uses it: map is the header map
\* w.Header() returns; status, header and body are what has been sent.
newWriter ==
    [map |-> NoResponse.header, status |-> 0, header |-> NoResponse.header,
     body |-> <<>>]

\* w.Header().Set(k, v): it changes the map, not what was sent before.
setHeader(rw, k, v) == [rw EXCEPT !.map = (k :> v) @@ @]

\* w.WriteHeader(code): the status line and the map as it is now are sent; a
\* second call changes nothing.
writeHeader(rw, code) ==
    IF rw.status # 0 THEN rw ELSE [rw EXCEPT !.status = code, !.header = rw.map]

\* w.Write(bytes), which sends the header with status 200 when none was sent.
write(rw, bytes) == [writeHeader(rw, 200) EXCEPT !.body = @ \o bytes]

\* The response as the client receives it.
sent(rw) == [status |-> rw.status, header |-> rw.header, body |-> rw.body]

\* The status line written before the headers are set.
respondStatusFirst(cfg, req, o, e) ==
    IF e # NilErr
    THEN sent(write(writeHeader(newWriter, 500), <<e>>))
    ELSE sent(write(
            setHeader(
                [writeHeader(newWriter, 200) EXCEPT
                    !.map = contentTypeHeader(cfg, req, @)],
                "X-Duration-Seconds", "%f"),
            o))

\* pipeRequest after wg.Wait: the response to the outcome (o, e).
respond(cfg, req, o, e) ==
    IF e # NilErr
    THEN sent(write(writeHeader(newWriter, 500), <<e>>))
    ELSE sent(write(
            writeHeader(
                setHeader(
                    [newWriter EXCEPT !.map = contentTypeHeader(cfg, req, @)],
                    "X-Duration-Seconds", "%f"),
                200),
            o))

----------------------------------------------------------------------------
(* The pipe of the child's standard input *)

NoPipe == [made |-> FALSE, isNil |-> FALSE, wOpen |-> FALSE, rOpen |-> FALSE, buf |-> <<>>]

\* targetCmd.StdinPipe(): a pipe, or nil when os.Pipe fails (the error is dropped).
StdinPipe(ok) ==
    IF ok THEN [made |-> TRUE, isNil |-> FALSE, wOpen |-> TRUE, rOpen |-> TRUE, buf |-> <<>>]
    ELSE [made |-> TRUE, isNil |-> TRUE, wOpen |-> FALSE, rOpen |-> FALSE, buf |-> <<>>]

\* A feeder that stops at a failed write, before writer.Close() and wg.Done().
afterWriteStops(failed) == IF failed THEN "failed" ELSE "close"

\* The feeder after writer.Write(requestBody): the result of the write is
\* dropped, writer.Close() comes next whether it failed or not.
afterWrite(failed) == "close"

\* A feeder that forgets writer.Close().
closeWriterForgotten(p) == p

\* The feeder's writer.Close().
closeWriter(p) == [p EXCEPT !.wOpen = FALSE]

\* os/exec closes the parent's write end when Wait returns or Start fails.
closeAfterWait(p) == [p EXCEPT !.wOpen = FALSE]

\* The read end is closed: the child exited, or could not be started.
closeReader(p) == [p EXCEPT !.rOpen = FALSE, !.buf = <<>>]

NoChild == [pc |-> "none", eof |-> FALSE, cbuf |-> <<>>, exit |-> 0]
NoFeeder == [pc |-> "none", rest |-> <<>>]

\* err.Error() of an *exec.ExitError
exitError(code) == IF code = 0 THEN NilErr ELSE "exit status 1"

\* err.Error() of the error of a command that cannot be started
startError == "exec: not found"

----------------------------------------------------------------------------
(* The state machine *)

Idle ==
    /\ panicAt = ""
    /\ pipeCall = "none"
    /\ envs = [called |-> FALSE, vars |-> NoVars]
    /\ targetCmd = [Env |-> [set |-> FALSE, vars |-> NoVars], starts |-> 0]
    /\ writer = NoPipe
    /\ input = [read |-> FALSE, requestBody |-> <<>>, buildInputErr |-> NilErr]
    /\ wg = 0
    /\ feeder = NoFeeder
    /\ drainer = "none"
    /\ child = NoChild
    /\ stdoutPipe = <<>>
    /\ captured = <<>>
    /\ out = <<>>
    /\ err = NilErr
    /\ w = NoResponse

Init ==
    /\ config \in Configs
    /\ server = "starting"
    /\ lockFile = FALSE
    /\ r = NoRequest
    /\ hpc = "idle"
    /\ Idle

\* main() going on with an empty config.faasProcess.
processMissingNever(cfg) == FALSE

\* main(): len(config.faasProcess) == 0.
processMissing(cfg) == cfg.faasProcess = ""

\* main() writing the lock file whatever config.suppressLock says.
writesLockAlways(cfg) == TRUE

\* main(): config.suppressLock == false.
writesLock(cfg) == cfg.suppressLock = FALSE

\* main(): the check of config.faasProcess, the lock file, ListenAndServe
\* (which serves, or returns at once when the address cannot be bound).
main ==
    /\ server = "starting"
    /\ IF processMissing(config)
       THEN server' = "panicked" /\ lockFile' = lockFile
       ELSE IF writesLock(config)
       THEN \E written, bound \in BOOLEAN :
                /\ lockFile' = written
                /\ server' = IF ~written THEN "panicked"
                             ELSE IF bound THEN "listening" ELSE "exited"
       ELSE \E bound \in BOOLEAN :
                /\ server' = IF bound THEN "listening" ELSE "exited"
                /\ lockFile' = lockFile
    /\ UNCHANGED <<config, r, hpc, reqVars>>

\* The HTTP stack hands the next request to the handler.
NewRequest ==
    /\ server = "listening"
    /\ hpc \in {"idle", "done", "aborted"}
    /\ r' \in Requests
    /\ hpc' = "received"
    /\ panicAt' = ""
    /\ pipeCall' = "none"
    /\ envs' = [called |-> FALSE, vars |-> NoVars]
    /\ targetCmd' = [Env |-> [set |-> FALSE, vars |-> NoVars], starts |-> 0]
    /\ writer' = NoPipe
    /\ input' = [read |-> FALSE, requestBody |-> <<>>, buildInputErr |-> NilErr]
    /\ wg' = 0
    /\ feeder' = NoFeeder
    /\ drainer' = "none"
    /\ child' = NoChild
    /\ stdoutPipe' = <<>>
    /\ captured' = <<>>
    /\ out' = <<>>
    /\ err' = NilErr
    /\ w' = NoResponse
    /\ UNCHANGED <<config, server, lockFile>>

\* The handler of makeRequestHandler and pipeRequest up to wg.Wait(): the
\* goroutines it starts are left to run. A panic here is recovered by net/http,
\* which drops the connection.
ServeHTTP ==
    /\ server = "listening"
    /\ hpc = "received"
    /\ \E order \in Orders(r.Header), pipeOK \in BOOLEAN :
        LET call == route(r.Method)
            hasBody == (call = "body")
            e == getAdditionalEnvs(config, r, r.Method, order)
            in == buildFunctionInput(config, r)
        IN
        IF call = "405"
        THEN /\ w' = methodNotAllowed
             /\ hpc' = "done"
             /\ UNCHANGED <<panicAt, pipeCall, envs, targetCmd, writer, input, wg,
                            feeder, drainer>>
        ELSE IF e.panic
        THEN /\ pipeCall' = call
             /\ envs' = [called |-> TRUE, vars |-> NoVars]
             /\ panicAt' = "getAdditionalEnvs"
             /\ hpc' = "aborted"
             /\ UNCHANGED <<targetCmd, writer, input, wg, feeder, drainer, w>>
        ELSE /\ pipeCall' = call
             /\ envs' = [called |-> TRUE, vars |-> e.vars]
             /\ targetCmd' = [targetCmd EXCEPT !.Env = cmdEnv(e.vars)]
             /\ writer' = StdinPipe(pipeOK)
             /\ IF hasBody /\ in.panic
                THEN /\ panicAt' = "buildFunctionInput"
                     /\ hpc' = "aborted"
                     /\ UNCHANGED <<input, wg, feeder, drainer, w>>
                ELSE IF hasBody /\ rejectsInput(in.err)
                THEN /\ input' = [read |-> TRUE, requestBody |-> in.res,
                                  buildInputErr |-> in.err]
                     /\ w' = badRequest(in.err)
                     /\ hpc' = "done"
                     /\ UNCHANGED <<panicAt, wg, feeder, drainer>>
                ELSE /\ input' = IF hasBody
                                 THEN [read |-> TRUE, requestBody |-> in.res,
                                       buildInputErr |-> in.err]
                                 ELSE input
                     /\ wg' = wgCount(hasBody)
                     /\ feeder' = IF hasBody
                                  THEN [pc |-> "write", rest |-> in.res]
                                  ELSE NoFeeder
                     /\ drainer' = "start"
                     /\ hpc' = "waiting"
                     /\ UNCHANGED <<panicAt, w>>
    /\ UNCHANGED <<config, server, lockFile, r, child, stdoutPipe, captured, out, err>>

\* The feeder: writer.Write(requestBody) on the nil writer of a failed
\* StdinPipe. The panic of a goroutine nothing recovers ends the process.
FeederPanic ==
    /\ server = "listening"
    /\ feeder.pc = "write"
    /\ writer.isNil
    /\ server' = "crashed"
    /\ feeder' = [feeder EXCEPT !.pc = "panicked"]
    /\ UNCHANGED <<config, lockFile, r, hpc, panicAt, pipeCall, envs, targetCmd,
                   writer, input, wg, drainer, child, stdoutPipe, captured, out,
                   err, w>>

\* The feeder: writer.Write(requestBody). The write blocks while the pipe is
\* full; it fails, and returns, once either end of the pipe is closed.
FeederWrite ==
    /\ server = "listening"
    /\ feeder.pc = "write"
    /\ ~writer.isNil
    /\ IF ~writer.wOpen \/ ~writer.rOpen \/ feeder.rest = <<>>
       THEN /\ feeder' = [feeder EXCEPT
                            !.pc = afterWrite(~writer.wOpen \/ ~writer.rOpen)]
            /\ UNCHANGED writer
       ELSE /\ Len(writer.buf) < PipeCap
            /\ LET n == Min(PipeCap - Len(writer.buf), Len(feeder.rest)) IN
               /\ writer' = [writer EXCEPT !.buf = @ \o Take(feeder.rest, n)]
               /\ feeder' = [pc |-> IF n = Len(feeder.rest)
                                    THEN afterWrite(FALSE) ELSE "write",
                             rest |-> Drop(feeder.rest, n)]
    /\ UNCHANGED <<config, server, lockFile, r, hpc, panicAt, pipeCall, envs,
                   targetCmd, input, wg, drainer, child, stdoutPipe, captured,
                   out, err, w>>

\* The feeder: writer.Close(), then the deferred wg.Done().
FeederClose ==
    /\ server = "listening"
    /\ feeder.pc = "close"
    /\ writer' = closeWriter(writer)
    /\ feeder' = [feeder EXCEPT !.pc = "done"]
    /\ wg' = wg - 1
    /\ UNCHANGED <<config, server, lockFile, r, hpc, panicAt, pipeCall, envs,
                   targetCmd, input, drainer, child, stdoutPipe, captured, out,
                   err, w>>

\* The drainer: targetCmd.CombinedOutput() starts the child. A command that
\* cannot be started closes both ends of the stdin pipe and returns its error.
DrainerStart ==
    /\ server = "listening"
    /\ drainer = "start"
    /\ IF Program(config.faasProcess).startable
       THEN /\ child' = [pc |-> "run",
                         eof |-> ~Program(config.faasProcess).reads,
                         cbuf |-> Program(config.faasProcess).output,
                         exit |-> Program(config.faasProcess).exit]
            /\ targetCmd' = [targetCmd EXCEPT !.starts = @ + 1]
            /\ drainer' = "wait"
            /\ UNCHANGED <<writer, out, err, wg>>
       ELSE /\ writer' = IF writer.isNil THEN writer
                         ELSE closeAfterWait(closeReader(writer))
            /\ out' = <<>>
            /\ err' = startError
            /\ drainer' = "done"
            /\ wg' = wg - 1
            /\ UNCHANGED <<child, targetCmd>>
    /\ UNCHANGED <<config, server, lockFile, r, hpc, panicAt, pipeCall, envs,
                   input, feeder, stdoutPipe, captured, w>>

\* The child reads its standard input: bytes of the pipe, or end of input once
\* the pipe is empty and its write end closed. With no pipe (StdinPipe failed)
\* the child's standard input is the null device.
ChildRead ==
    /\ server = "listening"
    /\ child.pc = "run"
    /\ ~child.eof
    /\ child.cbuf = <<>>
    /\ IF writer.isNil
       THEN child' = [child EXCEPT !.eof = TRUE] /\ UNCHANGED writer
       ELSE IF writer.buf # <<>>
       THEN LET n == Min(ChildBufCap, Len(writer.buf)) IN
            /\ child' = [child EXCEPT !.cbuf = Take(writer.buf, n)]
            /\ writer' = [writer EXCEPT !.buf = Drop(@, n)]
       ELSE /\ ~writer.wOpen
            /\ child' = [child EXCEPT !.eof = TRUE]
            /\ UNCHANGED writer
    /\ UNCHANGED <<config, server, lockFile, r, hpc, panicAt, pipeCall, envs,
                   targetCmd, input, wg, feeder, drainer, stdoutPipe, captured,
                   out, err, w>>

\* The child writes to its standard output; the write blocks while the pipe is full.
ChildWrite ==
    /\ server = "listening"
    /\ child.pc = "run"
    /\ child.cbuf # <<>>
    /\ Len(stdoutPipe) < PipeCap
    /\ LET n == Min(PipeCap - Len(stdoutPipe), Len(child.cbuf)) IN
       /\ stdoutPipe' = stdoutPipe \o Take(child.cbuf, n)
       /\ child' = [child EXCEPT !.cbuf = Drop(@, n)]
    /\ UNCHANGED <<config, server, lockFile, r, hpc, panicAt, pipeCall, envs,
                   targetCmd, writer, input, wg, feeder, drainer, captured, out,
                   err, w>>

\* The child exits: its ends of the pipes are closed.
ChildExit ==
    /\ server = "listening"
    /\ child.pc = "run"
    /\ child.eof
    /\ child.cbuf = <<>>
    /\ child' = [child EXCEPT !.pc = "exited"]
    /\ writer' = IF writer.isNil THEN writer ELSE closeReader(writer)
    /\ UNCHANGED <<config, server, lockFile, r, hpc, panicAt, pipeCall, envs,
                   targetCmd, input, wg, feeder, drainer, stdoutPipe, captured,
                   out, err, w>>

\* os/exec's goroutine copies the child's output pipe into the buffer.
CopyOutput ==
    /\ server = "listening"
    /\ drainer = "wait"
    /\ stdoutPipe # <<>>
    /\ captured' = captured \o stdoutPipe
    /\ stdoutPipe' = <<>>
    /\ UNCHANGED <<config, server, lockFile, r, hpc, panicAt, pipeCall, envs,
                   targetCmd, writer, input, wg, feeder, drainer, child, out,
                   err, w>>

\* The drainer: CombinedOutput returns once the child has exited and its
\* output is copied; os/exec closes the write end of the stdin pipe. Then the
\* deferred wg.Done().
DrainerWait ==
    /\ server = "listening"
    /\ drainer = "wait"
    /\ child.pc = "exited"
    /\ stdoutPipe = <<>>
    /\ child' = [child EXCEPT !.pc = "reaped"]
    /\ writer' = IF writer.isNil THEN writer ELSE closeAfterWait(writer)
    /\ out' = captured
    /\ err' = exitError(child.exit)
    /\ drainer' = "done"
    /\ wg' = wg - 1
    /\ UNCHANGED <<config, server, lockFile, r, hpc, panicAt, pipeCall, envs,
                   targetCmd, input, feeder, stdoutPipe, captured, w>>

\* The handler: wg.Wait() returns, and the response is written.
Join ==
    /\ server = "listening"
    /\ hpc = "waiting"
    /\ wg = 0
    /\ w' = respond(config, r, out, err)
    /\ hpc' = "done"
    /\ UNCHANGED <<config, server, lockFile, r, panicAt, pipeCall, envs, targetCmd,
                   writer, input, wg, feeder, drainer, child, stdoutPipe, captured,
                   out, err>>

Next ==
    \/ main
    \/ NewRequest
    \/ ServeHTTP
    \/ FeederPanic
    \/ FeederWrite
    \/ FeederClose
    \/ DrainerStart
    \/ ChildRead
    \/ ChildWrite
    \/ ChildExit
    \/ CopyOutput
    \/ DrainerWait
    \/ Join

Spec == Init /\ [][Next]_vars

\* The Go scheduler runs every runnable goroutine and the operating system
\* every runnable process; only the arrival of a request is left to the client.
Fairness ==
    /\ WF_vars(main)
    /\ WF_vars(ServeHTTP)
    /\ WF_vars(FeederPanic)
    /\ WF_vars(FeederWrite)
    /\ WF_vars(FeederClose)
    /\ WF_vars(DrainerStart)
    /\ WF_vars(ChildRead)
    /\ WF_vars(ChildWrite)
    /\ WF_vars(ChildExit)
    /\ WF_vars(CopyOutput)
    /\ WF_vars(DrainerWait)
    /\ WF_vars(Join)

FairSpec == Spec /\ Fairness

TypeOK ==
    /\ config \in Configs
    /\ server \in {"starting", "listening", "panicked", "exited", "crashed"}
    /\ hpc \in {"idle", "received", "waiting", "done", "aborted"}
    /\ wg \in 0..2
    /\ Len(writer.buf) <= PipeCap
    /\ Len(stdoutPipe) <= PipeCap

----------------------------------------------------------------------------
(* The claims *)

\* The value getenv gives a child for name n in the environment vs, where the
\* last of several entries of one name wins; "<unset>" when there is none.
LastWins(vs, n) ==
    LET at == { i \in 1..Len(vs) : vs[i].name = n } IN
    IF at = {} THEN "<unset>"
    ELSE vs[CHOOSE i \in at : \A j \in at : j <= i].value

\* A body-bearing request, marshal-request disabled, is being piped to cat
\* through a stdin pipe that exists.
C1_Premise ==
    /\ r.Method \in BodyMethods
    /\ ~config.marshalRequest
    /\ config.faasProcess = "cat"
    /\ writer.made /\ ~writer.isNil

\* C1: for a body-bearing method with marshal-request disabled and a child that
\* copies its standard input to its standard output through pipes of capacity
\* PipeCap, the handler eventually responds, and its response has status 200
\* and a body equal to the request body, whatever the body's length (0, 1,
\* more than PipeCap): feeder and drainer never deadlock each other.
C1_RoundTrip ==
    /\ [](C1_Premise /\ hpc = "done" => w.status = 200 /\ w.body = r.Body.bytes)
    /\ ((C1_Premise /\ hpc = "waiting") ~> (hpc = "done"))

C1_Witness ==
    /\ C1_Premise
    /\ hpc = "done"
    /\ w.status = 200
    /\ Len(r.Body.bytes) > PipeCap
    /\ w.body = r.Body.bytes

\* C2: for a GET request a child that blocks reading its standard input until
\* end of input still completes, and the handler eventually responds.
C2_GetCompletes ==
    (hpc = "waiting" /\ r.Method = "GET" /\ config.faasProcess = "cat")
        ~> (hpc = "done")

\* The drainer has returned with a child that could not be started or that
\* exited non-zero, and the handler has answered.
C3_Failed ==
    /\ hpc = "done"
    /\ drainer = "done"
    /\ \/ ~Program(config.faasProcess).startable
       \/ Program(config.faasProcess).exit # 0

\* C3: whenever the child cannot be started or exits non-zero, the response
\* has status 500, its body is exactly the error's description and never the
\* captured output, and the handler sets no header on it (neither Content-Type
\* nor X-Duration-Seconds).
C3_FailureIs500 ==
    C3_Failed =>
        /\ w.status = 500
        /\ err # NilErr
        /\ w.body = <<err>>
        /\ w.body # captured
        /\ DOMAIN w.header = {}

C3_Witness ==
    /\ C3_Failed
    /\ captured = <<"boom">>
    /\ w.status = 500
    /\ w.body = <<"exit status 1">>

\* marshal-request is enabled, the body was read and the encoder fails on this
\* request's headers.
C4_EncoderFailed ==
    /\ config.marshalRequest
    /\ input.read
    /\ MarshalRequest(r.Body.bytes, r.Header).err # NilErr

\* C4: when marshal-request is enabled and the encoder reports a failure, the
\* request is answered with status 400 and the encoder's message as body, and
\* the executable is never started for it: no feeder, no drainer, no child.
C4_EncoderFailureIs400 ==
    C4_EncoderFailed =>
        /\ hpc = "done"
        /\ w.status = 400
        /\ w.body = << MarshalRequest(r.Body.bytes, r.Header).err >>
        /\ targetCmd.starts = 0
        /\ feeder.pc = "none"
        /\ drainer = "none"
        /\ child.pc = "none"
        /\ wg = 0

C4_Witness ==
    /\ C4_EncoderFailed
    /\ hpc = "done"
    /\ w.status = 400
    /\ r.Body.bytes # <<>>

\* C5: no failure of a step of pipeRequest ever terminates the server process.
C5_ServerSurvives == server # "crashed"

\* C6: the handler calls pipeRequest with hasBody = true for POST, PUT, DELETE
\* and UPDATE and with hasBody = false for GET; for every other method it
\* answers 405 and does nothing else: no body read, no input stream opened, no
\* environment projected, no process started.
C6_Dispatch ==
    hpc \in {"waiting", "done", "aborted"} =>
        /\ r.Method \in BodyMethods => pipeCall = "body"
        /\ r.Method = "GET" => pipeCall = "nobody"
        /\ r.Method \notin BodyMethods \cup {"GET"} =>
            /\ pipeCall = "none"
            /\ hpc = "done"
            /\ w = [status |-> 405, header |-> NoResponse.header, body |-> <<>>]
            /\ ~input.read
            /\ ~writer.made
            /\ ~envs.called
            /\ targetCmd.starts = 0
            /\ feeder.pc = "none"
            /\ drainer = "none"
            /\ child.pc = "none"

C6_Witness ==
    /\ hpc = "done"
    /\ r.Method = "HEAD"
    /\ w.status = 405

\* The entries pipeRequest appended to the server's environment.
Appended == Drop(targetCmd.Env.vars, Len(OsEnviron))

\* C7: with cgi-headers enabled, the value of Http_Method a child sees, the
\* last entry of a name winning, is the inbound method, whatever the headers
\* (a header named Method included): after the server's environment come the
\* Http_<Header> entries, one per header with its first value, then
\* Http_Method, then Http_Query, which is there only for a non-empty query.
C7_HttpMethod ==
    (config.cgiHeaders /\ writer.made) =>
        /\ LastWins(ChildEnviron(targetCmd), "Http_Method") = r.Method
        /\ Len(targetCmd.Env.vars) >= Len(OsEnviron) + 1
        /\ LET n == Len(Appended)
               m == IF r.RawQuery # "" THEN n - 1 ELSE n
           IN /\ m = Cardinality(DOMAIN r.Header) + 1
              /\ Appended[m] = [name |-> "Http_Method", value |-> r.Method]
              /\ r.RawQuery # "" =>
                    Appended[n] = [name |-> "Http_Query", value |-> r.RawQuery]
              /\ \A k \in DOMAIN r.Header :
                    \E i \in 1..(m - 1) :
                        Appended[i] = [name |-> "Http_" \o k, value |-> r.Header[k][1]]

C7_Witness ==
    /\ config.cgiHeaders
    /\ targetCmd.starts > 0
    /\ "Method" \in DOMAIN r.Header
    /\ r.Header["Method"][1] # r.Method
    /\ LastWins(ChildEnviron(targetCmd), "Http_Method") = r.Method

\* C8: the child's environment is never set to the empty list. With
\* cgi-headers disabled getAdditionalEnvs returns the empty sequence and the
\* command's environment stays unset, so the child runs in the server's
\* environment unchanged; with it enabled the environment is the server's
\* whole environment followed by the appended entries.
C8_Environment ==
    /\ targetCmd.Env.set => targetCmd.Env.vars # <<>>
    /\ writer.made =>
        /\ ~config.cgiHeaders =>
            /\ envs.vars = <<>>
            /\ ~targetCmd.Env.set
            /\ ChildEnviron(targetCmd) = OsEnviron
        /\ config.cgiHeaders =>
            /\ targetCmd.Env.set
            /\ targetCmd.Env.vars = envs.vars
            /\ Len(targetCmd.Env.vars) > Len(OsEnviron)
            /\ Take(targetCmd.Env.vars, Len(OsEnviron)) = OsEnviron

C8_Witness ==
    /\ ~config.cgiHeaders
    /\ targetCmd.starts > 0
    /\ ~targetCmd.Env.set
    /\ ChildEnviron(targetCmd) = OsEnviron

\* C9: getAdditionalEnvs cannot fail: whatever the configuration, method, query
\* and headers (a header with an empty list of values included), it returns
\* without a panic and the request is not aborted in it.
C9_EnvsNeverFail == panicAt # "getAdditionalEnvs"

\* The drainer has returned with a child that ran and exited with status 0,
\* and the handler has answered.
C10_Succeeded ==
    /\ hpc = "done"
    /\ drainer = "done"
    /\ Program(config.faasProcess).startable
    /\ Program(config.faasProcess).exit = 0

\* C10: on a successful invocation the response has status 200 and the
\* captured output as its body; its Content-Type is the configured one when
\* that is not empty (whatever the caller sent), else the caller's when the
\* caller sent one (Header.Get gives a non-empty value), else unset.
C10_Success ==
    /\ C10_Succeeded => w.status = 200
    /\ w.status = 200 =>
        /\ w.body = captured
        /\ IF config.contentType # ""
           THEN /\ "Content-Type" \in DOMAIN w.header
                /\ w.header["Content-Type"] = config.contentType
           ELSE IF HeaderGet(r.Header, "Content-Type") # ""
           THEN /\ "Content-Type" \in DOMAIN w.header
                /\ w.header["Content-Type"] = HeaderGet(r.Header, "Content-Type")
           ELSE "Content-Type" \notin DOMAIN w.header

C10_Witness ==
    /\ C10_Succeeded
    /\ w.status = 200
    /\ w.body = <<"x", "y", "z">>
    /\ config.contentType = "text/plain"
    /\ HeaderGet(r.Header, "Content-Type") = "application/json"
    /\ w.header["Content-Type"] = "text/plain"

\* C11: every response with status 200 carries X-Duration-Seconds: on the
\* success path the header (and Content-Type, when one is chosen) is set before
\* the status line is written, and that is after the join of the feeder and
\* the drainer.
C11_DurationHeader ==
    w.status = 200 =>
        /\ "X-Duration-Seconds" \in DOMAIN w.header
        /\ (config.contentType # "" \/ HeaderGet(r.Header, "Content-Type") # "")
              => "Content-Type" \in DOMAIN w.header
        /\ hpc = "done"
        /\ wg = 0
        /\ drainer = "done"
        /\ feeder.pc \in {"none", "done"}

C11_Witness ==
    /\ w.status = 200
    /\ pipeCall = "body"
    /\ feeder.pc = "done"
    /\ DOMAIN w.header = {"X-Duration-Seconds", "Content-Type"}

\* A body-bearing request with a body object, marshal-request disabled, has
\* passed the creation of the stdin pipe.
C12_Premise ==
    /\ r.Method \in BodyMethods
    /\ r.Body.present
    /\ ~config.marshalRequest
    /\ writer.made

\* C12: for a body-bearing request whose body object is present, with
\* marshal-request disabled, buildFunctionInput returns exactly the bytes of
\* the request body (the empty sequence for an empty body) and no error, so
\* the request is never answered with status 400.
C12_RawBody ==
    C12_Premise =>
        /\ input.read
        /\ input.requestBody = r.Body.bytes
        /\ input.buildInputErr = NilErr
        /\ hpc \in {"waiting", "done"}
        /\ w.status # 400

C12_Witness ==
    /\ C12_Premise
    /\ r.Body.bytes = <<>>
    /\ input.read
    /\ input.requestBody = <<>>
    /\ hpc = "done"
    /\ w.status = 200

\* C13: a body-bearing request that has no body object is valid:
\* buildFunctionInput yields empty bytes and no error for it, and the
\* invocation goes on as for an empty body.
C13_NilBodyValid ==
    (r.Method \in BodyMethods /\ ~r.Body.present /\ writer.made) =>
        /\ hpc \in {"waiting", "done"}
        /\ panicAt = ""
        /\ input.read
        /\ input.buildInputErr = NilErr
        /\ ~config.marshalRequest => input.requestBody = <<>>

\* C14: with an empty target command line startup fails before anything else:
\* the readiness file is not written, the listener is never bound and no
\* connection is ever accepted.
C14_EmptyProcessFatal ==
    config.faasProcess = "" =>
        /\ server \in {"starting", "panicked"}
        /\ lockFile = FALSE
        /\ hpc = "idle"
        /\ r = NoRequest

C14_Witness ==
    /\ config.faasProcess = ""
    /\ server = "panicked"
    /\ ~config.suppressLock
    /\ lockFile = FALSE

\* main() has gone past the lock file: it has called ListenAndServe.
C15_Serving == server \in {"listening", "exited", "crashed"}

\* C15: unless suppress-lock is set, the server accepts connections only after
\* the readiness file was written; when the write fails the process stops and
\* never listens; with suppress-lock set the file is not written at all.
C15_LockBeforeListen ==
    /\ (C15_Serving /\ ~config.suppressLock) => lockFile
    /\ (hpc # "idle") => (config.suppressLock \/ lockFile)
    /\ (server = "panicked" /\ config.faasProcess # "") =>
          (~config.suppressLock /\ ~lockFile /\ hpc = "idle")
    /\ config.suppressLock => ~lockFile

C15_Witness ==
    /\ ~config.suppressLock
    /\ lockFile
    /\ server = "listening"
    /\ hpc = "done"

\* C16: the join barrier: a 200 or 500 response, made of the captured output
\* and the process error, is written only after every task that was started
\* has completed: the drainer, and for a body-bearing method the feeder, which
\* has then written and closed the child's input stream; this in every
\* interleaving of the two.
C16_JoinBarrier ==
    w.status \in {200, 500} =>
        /\ drainer = "done"
        /\ wg = 0
        /\ pipeCall = "body" => (feeder.pc = "done" /\ ~writer.wOpen)
        /\ pipeCall = "nobody" => feeder.pc = "none"
        /\ w.status = 200 => (err = NilErr /\ w.body = out /\ out = captured)
        /\ w.status = 500 => (err # NilErr /\ w.body = <<err>>)

C16_Witness ==
    /\ w.status = 500
    /\ pipeCall = "body"
    /\ feeder.pc = "done"
    /\ drainer = "done"
    /\ Len(input.requestBody) > PipeCap

\* C17: on every exit path of pipeRequest (200, 400, 500), when the handler
\* returns every pipe it opened is closed and every process it started is
\* reaped.
C17_NothingLeftOpen ==
    (hpc = "done" /\ w.status \in {200, 400, 500}) =>
        /\ ~writer.wOpen
        /\ ~writer.rOpen
        /\ stdoutPipe = <<>>
        /\ child.pc \in {"none", "reaped"}

\* A body-bearing request is piped, through a stdin pipe that exists, to a
\* child that exits with status 0 without reading its input.
C18_Premise ==
    /\ r.Method \in BodyMethods
    /\ config.faasProcess = "hostname"
    /\ writer.made /\ ~writer.isNil
    /\ input.read /\ input.buildInputErr = NilErr

\* C18: a failed write to the child's input is tolerated: when the child of a
\* body-bearing request exits with status 0 without consuming its input (a
\* body larger than the pipe included), the feeder still ends and closes the
\* stream, the join completes and the response is 200 with the child's output.
C18_WriteFailureTolerated ==
    /\ [](C18_Premise /\ hpc = "done" =>
            /\ w.status = 200
            /\ w.body = Program("hostname").output
            /\ feeder.pc = "done"
            /\ ~writer.wOpen)
    /\ ((C18_Premise /\ hpc = "waiting") ~> (hpc = "done"))

\* The write was cut short: bytes of the body were never written.
C18_Witness ==
    /\ C18_Premise
    /\ hpc = "done"
    /\ w.status = 200
    /\ Len(input.requestBody) > PipeCap
    /\ feeder.rest # <<>>

\* C19: for a GET request pipeRequest starts no feeder, waits for the drainer
\* only, never reads the request body and never writes a byte to the child's
\* standard input.
C19_GetFrame ==
    (r.Method = "GET" /\ hpc \in {"waiting", "done"}) =>
        /\ pipeCall = "nobody"
        /\ feeder = NoFeeder
        /\ ~input.read
        /\ input.requestBody = <<>>
        /\ writer.buf = <<>>
        /\ wg = IF drainer = "done" THEN 0 ELSE 1

C19_Witness ==
    /\ r.Method = "GET"
    /\ hpc = "done"
    /\ w.status = 200
    /\ w.body = Program("hostname").output
    /\ feeder = NoFeeder

\* The handling of the request has ended, its method is supported and its
\* input was materialized without error (a GET has none to materialize).
C20_Handled ==
    /\ hpc \in {"done", "aborted"}
    /\ \/ r.Method = "GET"
       \/ /\ r.Method \in BodyMethods
          /\ input.read
          /\ input.buildInputErr = NilErr
          /\ panicAt # "buildFunctionInput"

\* C20: each request starts the target executable at most once, and exactly
\* once when its method is supported and its input was materialized without
\* error; nothing is retried, and exactly one status (200, 400, 405 or 500) is
\* written per request.
C20_OneInvocationOneStatus ==
    /\ targetCmd.starts <= 1
    /\ hpc \in {"done", "aborted"} => w.status \in {200, 400, 405, 500}
    /\ (C20_Handled /\ Program(config.faasProcess).startable) => targetCmd.starts = 1
    /\ (C20_Handled /\ ~Program(config.faasProcess).startable) =>
          (targetCmd.starts = 0 /\ drainer = "done")

====
